---- MODULE Spec2Model ----
(***************************************************************************)
(* news-2-videos: the text pipeline of news-2-content (src/core.py,        *)
(* src/main.py, src/media.py).                                             *)
(*                                                                         *)
(* Texts.  A Python str is modelled as a sequence of atoms <<ch, n>>: the  *)
(* character ch repeated n times.  Every character is an atom with n = 1,  *)
(* except the filler letter "x" (an ordinary lowercase letter that occurs  *)
(* in no pattern of the program), whose runs stand for long stretches of   *)
(* article text, so that the program's 1500-character bound is met with    *)
(* its real value.  A character is named by a TLA+ string: an ASCII        *)
(* character by itself, a Vietnamese letter by its Telex spelling ("aws"   *)
(* is a-breve-acute, "DD" is capital D-stroke).                            *)
(***************************************************************************)
EXTENDS Integers, Sequences, FiniteSets, TLC

VARIABLES
    pc,            \* position of the run (or of the function applied)
    site,          \* site of the URL given to generate_audio
    summarization, \* TikTokNewsGenerator.summarization
    custom_audio,  \* custom_audio is set and the file exists
    tts,           \* MediaGenerator.tts is not None
    article,       \* the crawled article
    body,          \* generate_audio's local `body`
    chunks,        \* summarize's local `chunks`
    idx,           \* summarize's loop index over chunks (1-based)
    summaries,     \* summarize's local `summaries`
    requests,      \* the generation requests issued so far, in order
    provenance,    \* which path produced the summary
    full_script,   \* generate_audio's local `full_script`
    tts_text,      \* the text handed to MediaGenerator.generate_audio
    stages,        \* the stages run so far, in order
    error,         \* why the run ended in error
    arg,           \* input of the function applied
    out            \* its result

vars == <<pc, site, summarization, custom_audio, tts, article, body, chunks, idx,
          summaries, requests, provenance, full_script, tts_text, stages, error,
          arg, out>>

pipeline_vars == <<site, summarization, custom_audio, tts, article, body, chunks, idx,
                   summaries, requests, provenance, full_script, tts_text, stages, error>>

-----------------------------------------------------------------------------
(* Characters *)

FILL == "x"

ASCII_LOWER_SEQ ==
    <<"a", "b", "c", "d", "e", "f", "g", "h", "i", "j", "k", "l", "m",
      "n", "o", "p", "q", "r", "s", "t", "u", "v", "w", "x", "y", "z">>
ASCII_UPPER_SEQ ==
    <<"A", "B", "C", "D", "E", "F", "G", "H", "I", "J", "K", "L", "M",
      "N", "O", "P", "Q", "R", "S", "T", "U", "V", "W", "X", "Y", "Z">>
VN_LOWER_SEQ ==
    <<"af", "as", "ar", "ax", "aj", "aw", "aws", "awf", "awr", "awx", "awj", "aa",
      "aas", "aaf", "aar", "aax", "aaj", "ef", "es", "er", "ex", "ej", "ee", "ees",
      "eef", "eer", "eex", "eej", "if", "is", "ir", "ix", "ij", "of", "os", "or",
      "ox", "oj", "oo", "oos", "oof", "oor", "oox", "ooj", "ow", "ows", "owf", "owr",
      "owx", "owj", "uf", "us", "ur", "ux", "uj", "uw", "uws", "uwf", "uwr", "uwx",
      "uwj", "yf", "ys", "yr", "yx", "yj", "dd">>
VN_UPPER_SEQ ==
    <<"AF", "AS", "AR", "AX", "AJ", "AW", "AWS", "AWF", "AWR", "AWX", "AWJ", "AA",
      "AAS", "AAF", "AAR", "AAX", "AAJ", "EF", "ES", "ER", "EX", "EJ", "EE", "EES",
      "EEF", "EER", "EEX", "EEJ", "IF", "IS", "IR", "IX", "IJ", "OF", "OS", "OR",
      "OX", "OJ", "OO", "OOS", "OOF", "OOR", "OOX", "OOJ", "OW", "OWS", "OWF", "OWR",
      "OWX", "OWJ", "UF", "US", "UR", "UX", "UJ", "UW", "UWS", "UWF", "UWR", "UWX",
      "UWJ", "YF", "YS", "YR", "YX", "YJ", "DD">>

Range(s) == {s[i] : i \in DOMAIN s}

\* The character classes of _clean_text's patterns (core.py:261, 263).
LOWER == Range(ASCII_LOWER_SEQ) \cup Range(VN_LOWER_SEQ)
UPPER == Range(ASCII_UPPER_SEQ) \cup Range(VN_UPPER_SEQ)
DIGIT == {"0", "1", "2", "3", "4", "5", "6", "7", "8", "9"}
\* \s
SPACE == {" ", "\n", "\t"}
\* '.!?'
TERMINATOR == {".", "!", "?"}
\* The letters, among the characters named by code point, that are no Vietnamese letter.
OTHER_LETTER ==
    {"U+00AA", "U+00B5", "U+00BA", "U+00C4", "U+00C5", "U+00C6", "U+00C7", "U+00D1", "U+00D6",
     "U+00D8", "U+00DC", "U+00DF", "U+00E4", "U+00E5", "U+00E6", "U+00E7", "U+00EB", "U+00EE",
     "U+00EF", "U+00F1", "U+00F6", "U+00F8", "U+00FB", "U+00FC", "U+0192", "U+03A9", "U+03C0"}
\* \w (of a str pattern: letters, digits and the underscore), as \b needs it
WORDCHAR == LOWER \cup UPPER \cup OTHER_LETTER \cup DIGIT \cup {"_"}

\* str.lower on one character (the other letters are in no prefix, lowered or
\* not, and are left as they are)
LowerChar(c) ==
    LET lo == ASCII_LOWER_SEQ \o VN_LOWER_SEQ
        up == ASCII_UPPER_SEQ \o VN_UPPER_SEQ
    IN  IF c \in Range(up) THEN lo[CHOOSE i \in DOMAIN up : up[i] = c] ELSE c

-----------------------------------------------------------------------------
(* Texts *)

\* A literal, given character by character.
W(s) == [i \in DOMAIN s |-> <<s[i], 1>>]
\* n filler letters.
Fill(n) == << <<FILL, n>> >>
SP == W(<<" ">>)
DOT == W(<<".">>)

Last(s) == s[Len(s)]
Front(s) == SubSeq(s, 1, Len(s) - 1)

\* len(text)
RECURSIVE TLen(_)
TLen(t) ==
    IF t = <<>> THEN 0
    ELSE IF Len(t) = 1 THEN t[1][2]
    ELSE TLen(SubSeq(t, 1, Len(t) \div 2)) + TLen(SubSeq(t, Len(t) \div 2 + 1, Len(t)))

\* Adjacent filler runs are one run.
RECURSIVE Canon(_)
Canon(t) ==
    LET js == {j \in 1..(Len(t) - 1) : t[j][1] = FILL /\ t[j + 1][1] = FILL}
    IN  IF js = {} THEN t
        ELSE LET j == CHOOSE j \in js : \A k \in js : j <= k
             IN  SubSeq(t, 1, j - 1)
                     \o Canon(<< <<FILL, t[j][2] + t[j + 1][2]>> >> \o SubSeq(t, j + 2, Len(t)))

\* a + b, for a and b that hold no adjacent filler runs.
Cat(a, b) ==
    IF a # <<>> /\ b # <<>> /\ Last(a)[1] = FILL /\ b[1][1] = FILL
    THEN Front(a) \o << <<FILL, Last(a)[2] + b[1][2]>> >> \o Tail(b)
    ELSE a \o b

\* str.lstrip(), str.rstrip(), str.strip()
RECURSIVE LStrip(_)
LStrip(t) == IF t # <<>> /\ t[1][1] \in SPACE THEN LStrip(Tail(t)) ELSE t
RECURSIVE RStrip(_)
RStrip(t) == IF t # <<>> /\ Last(t)[1] \in SPACE THEN RStrip(Front(t)) ELSE t
Strip(t) == RStrip(LStrip(t))

\* sep.join(parts)
RECURSIVE Join(_, _)
Join(parts, sep) ==
    IF parts = <<>> THEN <<>>
    ELSE IF Len(parts) = 1 THEN parts[1]
    ELSE Cat(Cat(Join(SubSeq(parts, 1, Len(parts) \div 2), sep), sep),
             Join(SubSeq(parts, Len(parts) \div 2 + 1, Len(parts)), sep))

-----------------------------------------------------------------------------
(* Chunker: NewsProcessor._split_into_chunks *)

CHUNK_SIZE == 1500

\* re.split(r'(?<=[.!?])\s+', text): a separator is a maximal run of whitespace
\* that directly follows a terminator.
RECURSIVE SplitRec(_, _, _)
SplitRec(t, cur, acc) ==
    IF t = <<>> THEN Append(acc, cur)
    ELSE IF t[1][1] \in SPACE /\ cur # <<>> /\ Last(cur)[1] \in TERMINATOR
         THEN SplitRec(LStrip(t), <<>>, Append(acc, cur))
         ELSE SplitRec(Tail(t), Append(cur, t[1]), acc)

split_sentences(text) == SplitRec(text, <<>>, <<>>)

\* One iteration of the loop over sentences; the variant forgets the sentence
\* that did not fit.
chunk_step_drop(st, sentence) ==
    IF TLen(st.current) + TLen(sentence) < CHUNK_SIZE
    THEN [st EXCEPT !.current = IF st.current # <<>>
                                 THEN Cat(Cat(st.current, SP), sentence)
                                 ELSE sentence]
    ELSE [chunks  |-> IF st.current # <<>>
                      THEN Append(st.chunks, Strip(st.current))
                      ELSE st.chunks,
          current |-> <<>>]

chunk_step(st, sentence) ==
    IF TLen(st.current) + TLen(sentence) < CHUNK_SIZE
    THEN [st EXCEPT !.current = IF st.current # <<>>
                                 THEN Cat(Cat(st.current, SP), sentence)
                                 ELSE sentence]
    ELSE [chunks  |-> IF st.current # <<>>
                      THEN Append(st.chunks, Strip(st.current))
                      ELSE st.chunks,
          current |-> sentence]

RECURSIVE chunk_loop(_, _)
chunk_loop(sentences, st) ==
    IF sentences = <<>> THEN st
    ELSE chunk_loop(Tail(sentences), chunk_step(st, Head(sentences)))

split_into_chunks(text) ==
    LET st == chunk_loop(split_sentences(text), [chunks |-> <<>>, current |-> <<>>])
        cs == IF st.current # <<>> THEN Append(st.chunks, Strip(st.current)) ELSE st.chunks
    IN  IF cs # <<>> THEN cs ELSE <<text>>

-----------------------------------------------------------------------------
(* Pattern helpers *)

Min(S) == CHOOSE x \in S : \A y \in S : x <= y
Max(S) == CHOOSE x \in S : \A y \in S : x >= y

\* text[i-1:] (1-based i)
From(t, i) == SubSeq(t, i, Len(t))

\* The atoms of t from i on begin with the literal p.
MatchAt(t, i, p) == i >= 1 /\ i + Len(p) - 1 <= Len(t) /\ SubSeq(t, i, i + Len(p) - 1) = p

\* Index of the first occurrence of p in t at or after i; 0 when there is none.
Find(t, p, i) ==
    LET S == {j \in i..Len(t) : MatchAt(t, j, p)} IN IF S = {} THEN 0 ELSE Min(S)

\* Index of the last atom of the run of characters of class that starts at i
\* (i - 1 when t[i] is not of the class).
RunEnd(t, i, class) ==
    LET stops == {j \in i..Len(t) : t[j][1] \notin class}
    IN  IF stops = {} THEN Len(t) ELSE Min(stops) - 1

IsDigitAt(t, i) == i >= 1 /\ i <= Len(t) /\ t[i][1] \in DIGIT

\* \b between t[i-1] and t[i]
BoundaryBefore(t, i) ==
    LET before == i > 1 /\ i - 1 <= Len(t) /\ t[i - 1][1] \in WORDCHAR
        after  == i >= 1 /\ i <= Len(t) /\ t[i][1] \in WORDCHAR
    IN  before # after

-----------------------------------------------------------------------------
(* Normalizer: NewsProcessor._clean_text, pass by pass *)

THINK_OPEN  == W(<<"<", "t", "h", "i", "n", "k", ">">>)
THINK_CLOSE == W(<<"<", "/", "t", "h", "i", "n", "k", ">">>)

\* re.sub(r'<think>.*?</think>', '', text, flags=re.DOTALL)
RECURSIVE remove_think(_)
remove_think(t) ==
    LET o == Find(t, THINK_OPEN, 1)
        c == IF o = 0 THEN 0 ELSE Find(t, THINK_CLOSE, o + Len(THINK_OPEN))
    IN  IF c = 0 THEN t
        ELSE Cat(SubSeq(t, 1, o - 1), remove_think(From(t, c + Len(THINK_CLOSE))))

\* prefixes = ["Day la", "Tom tat:", "Doan van", "Duoi day", "Ket qua:", "Bai tin:"]
PREFIXES ==
    << W(<<"DD", "aa", "y", " ", "l", "af">>),
       W(<<"T", "os", "m", " ", "t", "aws", "t", ":">>),
       W(<<"DD", "o", "aj", "n", " ", "v", "aw", "n">>),
       W(<<"D", "uw", "ows", "i", " ", "dd", "aa", "y">>),
       W(<<"K", "ees", "t", " ", "q", "u", "ar", ":">>),
       W(<<"B", "af", "i", " ", "t", "i", "n", ":">>) >>

\* str.lower()
Lower(t) == [i \in DOMAIN t |-> <<LowerChar(t[i][1]), t[i][2]>>]

\* str.lstrip(':')
RECURSIVE LStripColon(_)
LStripColon(t) == IF t # <<>> /\ t[1][1] = ":" THEN LStripColon(Tail(t)) ELSE t

\* if text.lower().startswith(prefix.lower()):
\*     text = text[len(prefix):].strip().lstrip(':').strip()
strip_prefix(t, prefix) ==
    IF MatchAt(Lower(t), 1, Lower(prefix))
    THEN Strip(LStripColon(Strip(From(t, Len(prefix) + 1))))
    ELSE t

\* for prefix in prefixes: ... (each prefix tried once, in list order)
RECURSIVE strip_prefixes(_, _)
strip_prefixes(t, ps) ==
    IF ps = <<>> THEN t ELSE strip_prefixes(strip_prefix(t, Head(ps)), Tail(ps))

\* if text.startswith('"') and text.endswith('"'): text = text[1:-1]
strip_quotes(t) ==
    IF t # <<>> /\ t[1][1] = "\"" /\ Last(t)[1] = "\""
    THEN SubSeq(t, 2, Len(t) - 1)
    ELSE t

\* A match of (\d+)\.\s*(\d{3}) that starts at i; d is where the three digits start.
DegroupMatch(t, i) ==
    LET r == RunEnd(t, i, DIGIT)
        w == RunEnd(t, r + 2, SPACE)
        d == w + 1
        ok == /\ IsDigitAt(t, i)
              /\ r + 1 <= Len(t) /\ t[r + 1][1] = "."
              /\ IsDigitAt(t, d) /\ IsDigitAt(t, d + 1) /\ IsDigitAt(t, d + 2)
    IN  [ok |-> ok, dot |-> r + 1, d |-> d, end |-> d + 2]

\* re.sub(r'(\d+)\.\s*(\d{3})', r'\1\2', text), scanning from i: the text up to
\* the leftmost match, its replacement, and the same on the rest.
RECURSIVE degroup_sub(_, _)
degroup_sub(t, i) ==
    LET js == {j \in i..Len(t) : DegroupMatch(t, j).ok}
    IN  IF js = {} THEN From(t, i)
        ELSE LET m == DegroupMatch(t, Min(js))
             IN  SubSeq(t, i, m.dot - 1) \o SubSeq(t, m.d, m.end) \o degroup_sub(t, m.end + 1)

\* while re.search(r'(\d+)\.\s*(\d{3})', text): text = re.sub(...)
RECURSIVE degroup(_)
degroup(t) ==
    IF \E i \in DOMAIN t : DegroupMatch(t, i).ok THEN degroup(degroup_sub(t, 1)) ELSE t

\* re.sub(r',([^\s])', r', \1', text), scanning from i
RECURSIVE comma_sub(_, _)
comma_sub(t, i) ==
    LET js == {j \in i..Len(t) - 1 : t[j][1] = "," /\ t[j + 1][1] \notin SPACE}
    IN  IF js = {} THEN From(t, i)
        ELSE LET j == Min(js)
             IN  SubSeq(t, i, j) \o SP \o <<t[j + 1]>> \o comma_sub(t, j + 2)

\* re.sub(r'([<lower>])([<upper>])', r'\1 \2', text), scanning from i
RECURSIVE case_sub(_, _, _, _)
case_sub(t, i, lower, upper) ==
    LET js == {j \in i..Len(t) - 1 : t[j][1] \in lower /\ t[j + 1][1] \in upper}
    IN  IF js = {} THEN From(t, i)
        ELSE LET j == Min(js)
             IN  SubSeq(t, i, j) \o SP \o <<t[j + 1]>> \o case_sub(t, j + 2, lower, upper)

\* re.sub(r'([nN])([kK]<hoi>)', r'\1 \2', text), scanning from i
RECURSIVE nkh_sub(_, _, _)
nkh_sub(t, i, hoi) ==
    LET js == {j \in i..Len(t) - 1 : /\ t[j][1] \in {"n", "N"}
                                     /\ t[j + 1][1] \in {"k", "K"}
                                     /\ MatchAt(t, j + 2, hoi)}
    IN  IF js = {} THEN From(t, i)
        ELSE LET j == Min(js)
             IN  SubSeq(t, i, j) \o SP \o SubSeq(t, j + 1, j + 1 + Len(hoi))
                     \o nkh_sub(t, j + 2 + Len(hoi), hoi)

\* The alternatives of (<e1>|<e2>|...) that match at i, by their position.
EndingsAt(t, i, endings) == {k \in DOMAIN endings : MatchAt(t, i, endings[k])}

\* (<e1>|<e2>|...)([<lower>]{2,}) matches at i: the first alternative that
\* matches is followed by two or more lowercase letters.  (No two alternatives
\* match at the same place.)
EndingMatch(t, i, endings, lower) ==
    LET es == EndingsAt(t, i, endings)
    IN  /\ es # {}
        /\ LET j == i + Len(endings[Min(es)])
           IN  TLen(SubSeq(t, j, RunEnd(t, j, lower))) >= 2

\* re.sub(r'(<e1>|<e2>|...)([<lower>]{2,})', r'\1 \2', text), scanning from i
RECURSIVE ending_sub(_, _, _, _)
ending_sub(t, i, endings, lower) ==
    LET js == {j \in i..Len(t) : EndingMatch(t, j, endings, lower)}
    IN  IF js = {} THEN From(t, i)
        ELSE LET s == Min(js)
                 e == endings[Min(EndingsAt(t, s, endings))]
                 j == s + Len(e)
                 r == RunEnd(t, j, lower)
             IN  SubSeq(t, i, s - 1) \o e \o SP \o SubSeq(t, j, r)
                     \o ending_sub(t, r + 1, endings, lower)

\* (an|en|ong|inh|at|et|uc), with their diacritics
ENDINGS ==
    << W(<<"as", "n">>), W(<<"ees", "n">>), W(<<"oo", "n", "g">>), W(<<"if", "n", "h">>),
       W(<<"aas", "t">>), W(<<"eej", "t">>), W(<<"uwj", "c">>) >>
HOI == W(<<"h", "owr", "i">>)

\* int() of a string of digits
DigitVal(c) == CHOOSE v \in 0..9 : <<"0", "1", "2", "3", "4", "5", "6", "7", "8", "9">>[v + 1] = c
RECURSIVE IntOf(_)
IntOf(ds) == IF ds = <<>> THEN 0 ELSE 10 * IntOf(Front(ds)) + DigitVal(Last(ds)[1])

\* The length (1 or 2) of a group (\d{1,2}) at i that is followed by "/"; 0 if none.
DayMonthSlash(t, i) ==
    IF IsDigitAt(t, i) /\ IsDigitAt(t, i + 1) /\ MatchAt(t, i + 2, W(<<"/">>)) THEN 2
    ELSE IF IsDigitAt(t, i) /\ MatchAt(t, i + 1, W(<<"/">>)) THEN 1
    ELSE 0

\* The length (2 or 1) of a group (\d{1,2}) at i that is followed by \b; 0 if none.
DayMonthEnd(t, i) ==
    IF IsDigitAt(t, i) /\ IsDigitAt(t, i + 1) /\ BoundaryBefore(t, i + 2) THEN 2
    ELSE IF IsDigitAt(t, i) /\ BoundaryBefore(t, i + 1) THEN 1
    ELSE 0

\* A match of \b(\d{1,2})/(\d{1,2})/(\d{4})\b that starts at i.
DateYearMatch(t, i) ==
    LET l1 == DayMonthSlash(t, i)
        m  == i + l1 + 1
        l2 == DayMonthSlash(t, m)
        y  == m + l2 + 1
        ok == /\ BoundaryBefore(t, i) /\ l1 > 0 /\ l2 > 0
              /\ \A k \in y..(y + 3) : IsDigitAt(t, k)
              /\ BoundaryBefore(t, y + 4)
    IN  [ok |-> ok, day |-> <<i, i + l1 - 1>>, month |-> <<m, m + l2 - 1>>,
         year |-> <<y, y + 3>>, end |-> y + 3]

\* A match of \b(\d{1,2})/(\d{1,2})\b that starts at i.
DateMatch(t, i) ==
    LET l1 == DayMonthSlash(t, i)
        m  == i + l1 + 1
        l2 == DayMonthEnd(t, m)
        ok == BoundaryBefore(t, i) /\ l1 > 0 /\ l2 > 0
    IN  [ok |-> ok, day |-> <<i, i + l1 - 1>>, month |-> <<m, m + l2 - 1>>,
         end |-> m + l2 - 1]

\* m.group(k), for a group that spans the atoms g[1]..g[2]
Group(t, g) == SubSeq(t, g[1], g[2])

\* The words a date is rewritten with: 'mung', 'ngay', ' thang ', ' nam '.
DATE_WORDS ==
    [mung  |-> W(<<"m", "uf", "n", "g">>),
     ngay  |-> W(<<"n", "g", "af", "y">>),
     thang |-> W(<<" ", "t", "h", "as", "n", "g", " ">>),
     nam   |-> W(<<" ", "n", "aw", "m", " ">>)]

\* f"{'mung' if int(m.group(1))<=10 else 'ngay'} {m.group(1)} thang {m.group(2)}"
day_month(t, m, words) ==
    (IF IntOf(Group(t, m.day)) <= 10 THEN words.mung ELSE words.ngay) \o SP \o Group(t, m.day)
        \o words.thang \o Group(t, m.month)

\* re.sub(r'\b(\d{1,2})/(\d{1,2})/(\d{4})\b', lambda m: ..., text), scanning from i
RECURSIVE date_year_sub(_, _, _)
date_year_sub(t, i, words) ==
    LET js == {j \in i..Len(t) : DateYearMatch(t, j).ok}
    IN  IF js = {} THEN From(t, i)
        ELSE LET m == DateYearMatch(t, Min(js))
             IN  SubSeq(t, i, Min(js) - 1) \o day_month(t, m, words) \o words.nam
                     \o Group(t, m.year) \o date_year_sub(t, m.end + 1, words)

\* re.sub(r'\b(\d{1,2})/(\d{1,2})\b', lambda m: ..., text), scanning from i
RECURSIVE date_sub(_, _, _)
date_sub(t, i, words) ==
    LET js == {j \in i..Len(t) : DateMatch(t, j).ok}
    IN  IF js = {} THEN From(t, i)
        ELSE LET m == DateMatch(t, Min(js))
             IN  SubSeq(t, i, Min(js) - 1) \o day_month(t, m, words)
                     \o date_sub(t, m.end + 1, words)

\* re.sub(r'\s+', ' ', text)
RECURSIVE collapse_spaces(_)
collapse_spaces(t) ==
    LET js == {j \in DOMAIN t : /\ t[j][1] \in SPACE
                                /\ \/ <<t[j]>> # SP
                                   \/ j < Len(t) /\ t[j + 1][1] \in SPACE}
    IN  IF js = {} THEN t
        ELSE SubSeq(t, 1, Min(js) - 1) \o SP
                 \o collapse_spaces(From(t, RunEnd(t, Min(js), SPACE) + 1))

\* The largest power of two that is at most m (m >= 1).
RECURSIVE Pow2Floor(_)
Pow2Floor(m) == IF m < 2 THEN 1 ELSE 2 * Pow2Floor(m \div 2)

\* last > len(text)*0.7 in IEEE doubles: 0.7 is stored slightly low, so when last is
\* exactly seven tenths of len the product can round below last.
Past70(last, len) ==
    \/ 10 * last > 7 * len
    \/ 10 * last = 7 * len /\ last >= 1 /\ 2 * len > 5 * Pow2Floor(last)

\* if text and text[-1] not in '.!?':
\*     last = max(text.rfind('.'), text.rfind('!'), text.rfind('?'))
\*     text = text[:last+1] if last > len(text)*0.7 else text + '.'
complete_sentence(t) ==
    IF t # <<>> /\ Last(t)[1] \notin TERMINATOR
    THEN LET ks   == {k \in DOMAIN t : t[k][1] \in TERMINATOR}
             k    == IF ks = {} THEN 0 ELSE Max(ks)
             last == TLen(SubSeq(t, 1, k)) - 1
         IN  IF Past70(last, TLen(t)) THEN SubSeq(t, 1, k) ELSE t \o DOT
    ELSE t

\* The one element of a singleton.
Only(S) == CHOOSE x \in S : TRUE

\* The passes in the order of the source; each pass works on the finished
\* result of the pass before it.
clean_text(text) ==
    Only({Canon(complete_sentence(t11)) :
          t11 \in {Strip(collapse_spaces(t10)) :
          t10 \in {date_sub(t9, 1, DATE_WORDS) :
          t9 \in {date_year_sub(t8, 1, DATE_WORDS) :
          t8 \in {ending_sub(t7, 1, ENDINGS, LOWER) :
          t7 \in {nkh_sub(t6, 1, HOI) :
          t6 \in {case_sub(t5, 1, LOWER, UPPER) :
          t5 \in {comma_sub(t4, 1) :
          t4 \in {degroup(t3) :
          t3 \in {strip_quotes(t2) :
          t2 \in {strip_prefixes(t1, PREFIXES) :
          t1 \in {remove_think(text)}}}}}}}}}}}})

-----------------------------------------------------------------------------
(* TikTokNewsGenerator._final_cleanup (main.py).  In main.py every non-ASCII  *)
(* character of the patterns is stored as the two or three characters its     *)
(* UTF-8 bytes decode to in Mac Roman; they are modelled as they stand.  A    *)
(* character that is no Vietnamese letter is named by its code point.         *)

\* What the lowercase class of main.py:135-136 holds besides a-z.
FC_LOWER_EXTRA ==
    {"ES", "U+00A2", "U+00A3", "U+00A5", "U+00A8", "U+00A9", "U+00AA", "U+00AE", "U+00B0",
     "U+00B1", "U+00B4", "U+00B5", "U+00B7", "U+00C5", "U+00D6", "U+00D8", "U+00DF",
     "U+00E7", "U+00EB", "U+00EF", "U+00F8", "U+00FC", "U+0192", "U+03A9", "U+03C0",
     "U+2020", "U+2022", "U+2122", "U+2206", "U+2211", "U+221A", "U+221E", "U+222B",
     "U+2248", "U+2260", "U+2264", "U+2265", "aa", "as", "ax", "ef", "if", "oo", "os",
     "ox", "uf"}
\* What the uppercase class of main.py:136 holds besides A-Z.
FC_UPPER_EXTRA ==
    {"ES", "U+00A2", "U+00A5", "U+00A7", "U+00A8", "U+00AA", "U+00AE", "U+00B6", "U+00B7",
     "U+00BA", "U+00C4", "U+00C5", "U+00C6", "U+00C7", "U+00D1", "U+00D8", "U+00DC",
     "U+00E4", "U+00E5", "U+00E6", "U+00E7", "U+00EE", "U+00EF", "U+00F1", "U+00F6",
     "U+00FB", "U+0192", "U+2020", "U+2122", "U+2202", "U+2206", "U+220F", "U+221A",
     "U+221E", "U+222B", "U+2248", "U+2264", "aa", "af", "ee", "es", "if", "is", "of",
     "oo", "uf", "us"}
FC_LOWER == Range(ASCII_LOWER_SEQ) \cup FC_LOWER_EXTRA
FC_UPPER == Range(ASCII_UPPER_SEQ) \cup FC_UPPER_EXTRA

FC_HOI == W(<<"h", "U+00B7", "U+00AA", "U+00FC", "i">>)
FC_ENDINGS ==
    << W(<<"U+221A", "U+00B0", "n">>), W(<<"U+00B7", "U+222B", "U+00F8", "n">>),
       W(<<"U+221A", "U+00A5", "n", "g">>), W(<<"U+221A", "U+00A8", "n", "h">>),
       W(<<"U+00B7", "U+222B", "U+2022", "t">>), W(<<"U+00B7", "U+00AA", "as", "t">>),
       W(<<"U+00B7", "U+00AA", "U+00B1", "c">>) >>
FC_DATE_WORDS ==
    [mung  |-> W(<<"m", "U+221A", "U+03C0", "n", "g">>),
     ngay  |-> W(<<"n", "g", "U+221A", "U+2020", "y">>),
     thang |-> W(<<" ", "t", "h", "U+221A", "U+00B0", "n", "g", " ">>),
     nam   |-> W(<<" ", "n", "U+0192", "ES", "m", " ">>)]

final_cleanup(text) ==
    Only({Canon(complete_sentence(t8)) :
          t8 \in {Strip(collapse_spaces(t7)) :
          t7 \in {date_sub(t6, 1, FC_DATE_WORDS) :
          t6 \in {date_year_sub(t5, 1, FC_DATE_WORDS) :
          t5 \in {case_sub(t4, 1, FC_LOWER, FC_UPPER) :
          t4 \in {ending_sub(t3, 1, FC_ENDINGS, FC_LOWER) :
          t3 \in {nkh_sub(t2, 1, FC_HOI) :
          t2 \in {comma_sub(t1, 1) :
          t1 \in {degroup(text)}}}}}}}}})

-----------------------------------------------------------------------------
(* The values the pipeline's variables hold while a single function is checked. *)

NoArticle == [title |-> <<>>, description |-> <<>>, content |-> <<>>]

PipelineIdle ==
    /\ site = "none"
    /\ summarization = FALSE
    /\ custom_audio = FALSE
    /\ tts = FALSE
    /\ article = NoArticle
    /\ body = <<>>
    /\ chunks = <<>>
    /\ idx = 0
    /\ summaries = <<>>
    /\ requests = <<>>
    /\ provenance = "none"
    /\ full_script = <<>>
    /\ tts_text = <<>>
    /\ stages = <<>>
    /\ error = "none"

-----------------------------------------------------------------------------
(* SpecChunk: _split_into_chunks applied to bounded texts *)

\* Most sentences a chunker input holds.
MaxSent == 3

\* Sentence lengths around the bound: two sentences of 750 and 749 characters
\* sum to 1499, one short of the bound.
SentLens == {2, 749, 750, 1499, 1500}

\* A sentence of n characters: n - 1 filler letters and a terminator.
Sentence(n) == Cat(Fill(n - 1), DOT)

Separators == {SP, W(<<" ", "\n">>)}

RECURSIVE SentenceTexts(_)
SentenceTexts(k) ==
    IF k = 0 THEN {<<>>}
    ELSE LET shorter == SentenceTexts(k - 1)
         IN  shorter \cup
             {IF t = <<>> THEN Sentence(n) ELSE Cat(Cat(t, sep), Sentence(n)) :
                 t \in shorter, sep \in Separators, n \in SentLens}

\* Texts of up to MaxSent sentences, with or without an unterminated tail and
\* surrounding whitespace.
ChunkInputs ==
    LET tails == {<<>>, SP, Cat(SP, Fill(3)), Cat(Cat(SP, Fill(1500)), SP)}
    IN  {Cat(lead, Cat(t, tail)) :
            lead \in {<<>>, SP}, t \in SentenceTexts(MaxSent), tail \in tails}

InitChunk ==
    /\ pc = "split"
    /\ arg \in ChunkInputs
    /\ out = <<>>
    /\ PipelineIdle

SplitIntoChunks ==
    /\ pc = "split"
    /\ out' = split_into_chunks(arg)
    /\ pc' = "split_done"
    /\ UNCHANGED <<arg, pipeline_vars>>

NextChunk == SplitIntoChunks

SpecChunk == InitChunk /\ [][NextChunk]_vars

\* The sentences of all chunks, in order.
RECURSIVE chunk_sentences(_)
chunk_sentences(cs) ==
    IF cs = <<>> THEN <<>> ELSE split_sentences(Head(cs)) \o chunk_sentences(Tail(cs))

\* C7: every chunk that holds more than one sentence is strictly shorter than
\* 1500 characters, the joining spaces counted.
C7_MultiSentenceChunkUnderBound ==
    pc = "split_done" =>
        \A i \in DOMAIN out :
            Len(split_sentences(out[i])) > 1 => TLen(out[i]) < CHUNK_SIZE

\* C8: the chunker returns at least one chunk; the sentences of the chunks, in
\* order, are the sentences of the (stripped) input, each once and in the
\* original order; a text without a sentence boundary comes back as one chunk.
C8_ChunksKeepEverySentence ==
    pc = "split_done" =>
        /\ Len(out) >= 1
        /\ chunk_sentences(out) = split_sentences(Strip(arg))
        /\ Join(out, SP) = Join(split_sentences(Strip(arg)), SP)
        /\ Len(split_sentences(arg)) = 1 => out = <<Strip(arg)>>

\* C8's case: a text of three sentences split into two chunks, one of them
\* holding two sentences.
C8_Witness ==
    /\ pc = "split_done"
    /\ Len(split_sentences(arg)) = 3
    /\ Len(out) = 2
    /\ \E i \in DOMAIN out : Len(split_sentences(out[i])) = 2

-----------------------------------------------------------------------------
(* SpecNorm: _clean_text applied, and applied again, to bounded texts *)

\* Most pieces a normalizer input is made of.
MaxPieces == 3

NormPieces ==
    { PREFIXES[1], PREFIXES[2], SP, DOT, W(<<"\"">>), W(<<",">>), W(<<"1">>),
      W(<<".", "2", "3", "4">>), W(<<"3", "/", "4">>), W(<<"t", "i", "n">>),
      W(<<"oo", "n", "g">>), W(<<"A">>), THINK_OPEN, THINK_CLOSE }

RECURSIVE PieceTexts(_)
PieceTexts(k) ==
    IF k = 0 THEN {<<>>}
    ELSE LET shorter == PieceTexts(k - 1)
         IN  shorter \cup {Cat(t, p) : t \in shorter, p \in NormPieces}

NormInputs == PieceTexts(MaxPieces)

InitNorm ==
    /\ pc = "norm"
    /\ arg \in NormInputs
    /\ out = <<>>
    /\ PipelineIdle

\* out holds clean_text(arg) and then clean_text(clean_text(arg)).
CleanText ==
    /\ pc = "norm"
    /\ Len(out) < 2
    /\ out' = Append(out, clean_text(IF out = <<>> THEN arg ELSE Last(out)))
    /\ UNCHANGED <<pc, arg, pipeline_vars>>

NextNorm == CleanText

SpecNorm == InitNorm /\ [][NextNorm]_vars

\* C6: normalizing a normalized text changes nothing.
C6_NormalizeIdempotent ==
    pc = "norm" /\ Len(out) = 2 => out[2] = out[1]

-----------------------------------------------------------------------------
(* The generation backend and the stages built on it (src/core.py) *)

\* str.split(): the maximal runs of non-whitespace characters.
\* Index of the last atom of the word that starts at i.
WordEnd(t, i) ==
    LET stops == {j \in i..Len(t) : t[j][1] \in SPACE}
    IN  IF stops = {} THEN Len(t) ELSE Min(stops) - 1

\* The words that start at the positions lo..hi of t, in order.
RECURSIVE WordsIn(_, _, _)
WordsIn(t, lo, hi) ==
    IF lo > hi THEN <<>>
    ELSE IF lo = hi
         THEN IF t[lo][1] \notin SPACE /\ (lo = 1 \/ t[lo - 1][1] \in SPACE)
              THEN <<SubSeq(t, lo, WordEnd(t, lo))>>
              ELSE <<>>
    ELSE WordsIn(t, lo, (lo + hi) \div 2) \o WordsIn(t, (lo + hi) \div 2 + 1, hi)

Words(t) == WordsIn(t, 1, Len(t))

\* text[:n]
RECURSIVE TakeChars(_, _)
TakeChars(t, n) ==
    IF n <= 0 \/ t = <<>> THEN <<>>
    ELSE IF t[1][2] <= n THEN <<t[1]>> \o TakeChars(Tail(t), n - t[1][2])
    ELSE << <<t[1][1], n>> >>

\* What one requests.post(.../api/generate) call comes to: an exception (a
\* timeout, a refused connection, a body that is not JSON), or an answer with
\* a status code and the text of its 'response' field.
RAISED == [raised |-> TRUE, status |-> 0, response |-> <<>>]
Answer(status, response) == [raised |-> FALSE, status |-> status, response |-> response]
Failed(o) == o.raised \/ o.status # 200

\* One entry of the log of generation requests.
Request(kind, n, prompt, o) == [kind |-> kind, n |-> n, prompt |-> prompt, outcome |-> o]

\* f"{article.get('description', '')} {article.get('content', '')}"
desc_and_content(a) == Cat(Cat(a.description, SP), a.content)

\* re.split(r'[.!?]', content)
RECURSIVE SplitTermRec(_, _, _)
SplitTermRec(t, cur, acc) ==
    IF t = <<>> THEN Append(acc, cur)
    ELSE IF t[1][1] \in TERMINATOR
         THEN SplitTermRec(Tail(t), <<>>, Append(acc, cur))
         ELSE SplitTermRec(Tail(t), Append(cur, t[1]), acc)

\* [s.strip() for s in parts if s.strip()]
RECURSIVE StripNonEmpty(_)
StripNonEmpty(parts) ==
    IF parts = <<>> THEN <<>>
    ELSE IF Strip(Head(parts)) = <<>> THEN StripNonEmpty(Tail(parts))
    ELSE <<Strip(Head(parts))>> \o StripNonEmpty(Tail(parts))

FALLBACK_SENTENCES == 12

\* The crawlers always set the key 'content', so article.get('content', ...)
\* never falls through to the description.
fallback_summarize(a) ==
    LET sentences == SplitTermRec(a.content, <<>>, <<>>)
        first     == SubSeq(sentences, 1, Min({FALLBACK_SENTENCES, Len(sentences)}))
        summary   == Join(StripNonEmpty(first), W(<<".", " ">>))
    IN  clean_text(IF summary # <<>> THEN Cat(summary, DOT) ELSE a.title)

summarize_direct(a, o) ==
    IF ~Failed(o) THEN clean_text(Strip(o.response)) ELSE fallback_summarize(a)

summarize_chunk(o) ==
    IF ~Failed(o) THEN Strip(remove_think(o.response)) ELSE <<>>

\* `if summary: summaries.append(summary)`; the variant puts the summary first.
keep_summary_front(ss, summary) == IF summary # <<>> THEN <<summary>> \o ss ELSE ss

keep_summary(ss, summary) == IF summary # <<>> THEN Append(ss, summary) ELSE ss

\* " ".join(s for s in summaries if s)
combined_summaries(ss) == Join(SelectSeq(ss, LAMBDA s : s # <<>>), SP)

MIN_COMBINE_WORDS == 80

\* The variant takes a combine answer only when it has more than 80 words.
combine_summaries_gt(ss, o) ==
    LET combined == combined_summaries(ss)
        final    == Strip(o.response)
    IN  IF ~Failed(o) /\ final # <<>> /\ Len(Words(final)) > MIN_COMBINE_WORDS
        THEN clean_text(final)
        ELSE clean_text(combined)

combine_summaries(ss, o) ==
    LET combined == combined_summaries(ss)
        final    == Strip(o.response)
    IN  IF ~Failed(o) /\ final # <<>> /\ Len(Words(final)) >= MIN_COMBINE_WORDS
        THEN clean_text(final)
        ELSE clean_text(combined)

\* summarize's `if len(content) < 1500`; the variant lets a text of exactly
\* 1500 characters take the direct path.
takes_direct_le(content) == TLen(content) <= CHUNK_SIZE

takes_direct(content) == TLen(content) < CHUNK_SIZE

MAX_WORDS == 120

\* words[i:i+max_words] for i in range(0, len(words), max_words), each joined
\* with single spaces.
RECURSIVE word_chunks(_)
word_chunks(words) ==
    IF words = <<>> THEN <<>>
    ELSE IF Len(words) <= MAX_WORDS THEN <<Join(words, SP)>>
    ELSE <<Join(SubSeq(words, 1, MAX_WORDS), SP)>>
         \o word_chunks(SubSeq(words, MAX_WORDS + 1, Len(words)))

\* What the corrector model returns for a chunk when it changes it.
CORRECTED == W(<<"T", "i", "n", " ", "d", "ax", " ", "s", "uwr", "a", ",", "r", "o", "i">>)

\* The corrector on one chunk: it raises (the chunk is kept), or it decodes
\* to the chunk itself or to another text.
corrected_chunk(chunk, how) == IF how = "changed" THEN CORRECTED ELSE chunk

correct_text(text, hows) ==
    IF Strip(text) = <<>> THEN text
    ELSE LET cs == word_chunks(Words(text))
         IN  Join([i \in DOMAIN cs |-> corrected_chunk(cs[i], hows[i])], SP)

\* refine_text's gate `refined and 0.5 < len(refined)/len(text) < 1.5`; with
\* an empty text the division raises and the except clause returns the text.
\* The variant accepts every non-empty answer.
refine_accepts_any(refined, text) == refined # <<>>

refine_accepts(refined, text) ==
    /\ refined # <<>>
    /\ TLen(text) > 0
    /\ 2 * TLen(refined) > TLen(text)
    /\ 2 * TLen(refined) < 3 * TLen(text)

refine_text(text, o) ==
    IF ~Failed(o) /\ refine_accepts(Strip(o.response), text)
    THEN clean_text(Strip(o.response))
    ELSE text

-----------------------------------------------------------------------------
(* The orchestrator (src/main.py) and the audio side (src/media.py) *)

INTRO_HEAD == W(<<"T", "i", "n", " ", "n", "U+221A", "U+2265", "n", "g", ":", " ">>)

OUTRO ==
    W(<<"T", "h", "e", "o", " ", "d", "U+221A", "U+00B5", "i", " ", "v", "U+221A",
        "U+2020", " ", "f", "o", "l", "l", "o", "w", " ", "k", "U+221A", "U+2122",
        "n", "h", " ", "T", "i", "k", "t", "o", "k", " ", "c", "U+00B7", "U+00AA",
        "U+00DF", "a", " ", "P", "S", "I", " ", "U+0192", "U+00EB", "U+00B7",
        "U+00AA", "ES", " ", "c", "U+00B7", "U+222B", "U+2260", "p", " ", "n", "h",
        "U+00B7", "U+222B", "U+2260", "t", " ", "t", "h", "U+221A", "U+2122", "m",
        " ", "t", "i", "n", " ", "t", "U+00B7", "U+00AA", "U+00A9", "c", "!">>)

ELLIPSIS == W(<<".", ".", ".">>)

TITLE_CHARS == 50

\* full_script = f"{intro}... {body} ... {outro}"
assemble(title, text) ==
    LET intro == Cat(Cat(INTRO_HEAD, TakeChars(title, TITLE_CHARS)), ELLIPSIS)
    IN  Cat(Cat(Cat(Cat(intro, Cat(ELLIPSIS, SP)), text), Cat(Cat(SP, ELLIPSIS), SP)), OUTRO)

\* str.replace(old, new)
RECURSIVE Replace(_, _, _)
Replace(t, old, new) ==
    LET i == Find(t, old, 1)
    IN  IF i = 0 THEN t
        ELSE SubSeq(t, 1, i - 1) \o new \o Replace(From(t, i + Len(old)), old, new)

\* MediaGenerator.generate_audio's text for the engine
infer_text(text) ==
    Replace(Replace(text, Cat(ELLIPSIS, SP), Cat(DOT, SP)),
            Cat(Cat(SP, ELLIPSIS), SP), Cat(DOT, SP))

\* One entry of the history of stages: the stage and the text it produced.
Stage(name, text) == [name |-> name, text |-> text]

SUPPORTED == {"vnexpress", "tienphong"}
SITES == SUPPORTED \cup {"other"}

Article(title, description, content) ==
    [title |-> title, description |-> description, content |-> content]

TIN == W(<<"T", "i", "n">>)

\* The letter that tells one short sentence, or one chunk summary, from another.
MARKS == <<"a", "b", "c", "d", "e", "f", "g", "h", "i", "j", "k", "l", "m">>

\* What a crawl of a supported site can return: a short article; a page on
\* which only the description was found; thirteen short sentences; three
\* sentences of 1000 characters under a title of 60; and two articles whose
\* description and content come to exactly 1500 and to 1499 characters.
Articles ==
    { Article(TIN, W(<<"t", "i", "n", " ", "a", ".">>),
              W(<<"t", "i", "n", " ", "b", ".", " ", "t", "i", "n", ",", "c">>)),
      Article(<<>>, W(<<"t", "i", "n", " ", "a", ".">>), <<>>),
      Article(TIN, <<>>, Join([i \in DOMAIN MARKS |-> W(<<MARKS[i], ".">>)], SP)),
      Article(Fill(60), Sentence(1000), Cat(Cat(Sentence(1000), SP), Sentence(1000))),
      Article(TIN, Sentence(700), Sentence(799)),
      Article(TIN, Sentence(700), Sentence(798)) }

\* A summary the backend may answer with.
SUMMARY == W(<<"T", "i", "n", " ", "m", "ows", "i", ".">>)

\* The backend's summary of chunk i.
ChunkSummary(i) == W(<<"D", "o", "a", "n", " ", MARKS[i], ".">>)

DirectOutcomes ==
    {RAISED, Answer(500, <<>>), Answer(200, <<>>), Answer(200, PREFIXES[1]),
     Answer(200, Cat(SP, SUMMARY))}

ChunkOutcomes(i) ==
    {RAISED, Answer(500, <<>>), Answer(200, Cat(THINK_OPEN, THINK_CLOSE)),
     Answer(200, Cat(ChunkSummary(i), SP))}

CombineOutcomes == {RAISED, Answer(500, <<>>), Answer(200, SUMMARY)}

\* An answer that echoes the text, and one cut to 30% of it, among the others.
RefineOutcomes(text) ==
    {RAISED, Answer(500, <<>>), Answer(200, <<>>), Answer(200, text),
     Answer(200, TakeChars(text, (3 * TLen(text)) \div 10))}

HOWS == {"raises", "same", "changed"}

Init ==
    /\ pc = "start"
    /\ site \in SITES
    /\ summarization \in BOOLEAN
    /\ custom_audio \in BOOLEAN
    /\ tts \in BOOLEAN
    /\ article = NoArticle
    /\ body = <<>>
    /\ chunks = <<>>
    /\ idx = 0
    /\ summaries = <<>>
    /\ requests = <<>>
    /\ provenance = "none"
    /\ full_script = <<>>
    /\ tts_text = <<>>
    /\ stages = <<>>
    /\ error = "none"
    /\ arg = <<>>
    /\ out = <<>>

\* summarize's local `content`
content_of(a) == Strip(desc_and_content(a))

\* Step 1.  An unsupported site raises ValueError; requests.get is not guarded,
\* so a network failure on a supported site raises as well.
CrawlArticle ==
    /\ pc = "start"
    /\ \/ /\ site \notin SUPPORTED
          /\ pc' = "error" /\ error' = "unsupported_site"
          /\ UNCHANGED <<article, stages>>
       \/ /\ site \in SUPPORTED
          /\ pc' = "error" /\ error' = "network"
          /\ UNCHANGED <<article, stages>>
       \/ /\ site \in SUPPORTED
          /\ article' \in Articles
          /\ stages' = Append(stages, Stage("Crawl", <<>>))
          /\ pc' = "crawled"
          /\ UNCHANGED error
    /\ UNCHANGED <<site, summarization, custom_audio, tts, body, chunks, idx, summaries,
                   requests, provenance, full_script, tts_text, arg, out>>

\* Step 2 without summarization.
PassThrough ==
    /\ pc = "crawled" /\ ~summarization
    /\ body' = content_of(article)
    /\ stages' = Append(stages, Stage("PassThrough", body'))
    /\ pc' = "body"
    /\ UNCHANGED <<site, summarization, custom_audio, tts, article, chunks, idx, summaries,
                   requests, provenance, full_script, tts_text, error, arg, out>>

\* summarize on a short article: _summarize_direct
SummarizeDirect ==
    /\ pc = "crawled" /\ summarization
    /\ takes_direct(content_of(article))
    /\ \E o \in DirectOutcomes :
          /\ requests' = Append(requests, Request("direct", 0, desc_and_content(article), o))
          /\ body' = summarize_direct(article, o)
          /\ provenance' = IF Failed(o) THEN "fallback-extractive" ELSE "direct"
    /\ stages' = Append(stages, Stage("Summarize", body'))
    /\ pc' = "body"
    /\ UNCHANGED <<site, summarization, custom_audio, tts, article, chunks, idx, summaries,
                   full_script, tts_text, error, arg, out>>

\* summarize on a long article: the split
SummarizeSplit ==
    /\ pc = "crawled" /\ summarization
    /\ ~takes_direct(content_of(article))
    /\ chunks' = split_into_chunks(content_of(article))
    /\ idx' = 1
    /\ summaries' = <<>>
    /\ pc' = "chunks"
    /\ UNCHANGED <<site, summarization, custom_audio, tts, article, body, requests,
                   provenance, full_script, tts_text, stages, error, arg, out>>

\* One iteration of the loop over chunks.
SummarizeChunk ==
    /\ pc = "chunks" /\ idx <= Len(chunks)
    /\ \E o \in ChunkOutcomes(idx) :
          /\ requests' = Append(requests, Request("chunk", idx, chunks[idx], o))
          /\ summaries' = keep_summary(summaries, summarize_chunk(o))
    /\ idx' = idx + 1
    /\ UNCHANGED <<pc, site, summarization, custom_audio, tts, article, body, chunks,
                   provenance, full_script, tts_text, stages, error, arg, out>>

\* `if not summaries: return self._fallback_summarize(article)`
SummarizeFallback ==
    /\ pc = "chunks" /\ idx > Len(chunks)
    /\ summaries = <<>>
    /\ body' = fallback_summarize(article)
    /\ provenance' = "fallback-extractive"
    /\ stages' = Append(stages, Stage("Summarize", body'))
    /\ pc' = "body"
    /\ UNCHANGED <<site, summarization, custom_audio, tts, article, chunks, idx, summaries,
                   requests, full_script, tts_text, error, arg, out>>

\* _combine_summaries
CombineSummaries ==
    /\ pc = "chunks" /\ idx > Len(chunks)
    /\ summaries # <<>>
    /\ \E o \in CombineOutcomes :
          /\ requests' = Append(requests, Request("combine", 0, combined_summaries(summaries), o))
          /\ body' = combine_summaries(summaries, o)
    /\ provenance' = "chunked-combined"
    /\ stages' = Append(stages, Stage("Summarize", body'))
    /\ pc' = "body"
    /\ UNCHANGED <<site, summarization, custom_audio, tts, article, chunks, idx, summaries,
                   full_script, tts_text, error, arg, out>>

\* Step 3, first call.
CorrectText ==
    /\ pc = "body"
    /\ \E hows \in [DOMAIN word_chunks(Words(body)) -> HOWS] :
          body' = correct_text(body, hows)
    /\ stages' = Append(stages, Stage("SpellCorrect", body'))
    /\ pc' = "corrected"
    /\ UNCHANGED <<site, summarization, custom_audio, tts, article, chunks, idx, summaries,
                   requests, provenance, full_script, tts_text, error, arg, out>>

\* Step 3, second call.
RefineText ==
    /\ pc = "corrected"
    /\ \E o \in RefineOutcomes(body) :
          /\ requests' = Append(requests, Request("refine", 0, body, o))
          /\ body' = refine_text(body, o)
    /\ stages' = Append(stages, Stage("Refine", body'))
    /\ pc' = "refined"
    /\ UNCHANGED <<site, summarization, custom_audio, tts, article, chunks, idx, summaries,
                   provenance, full_script, tts_text, error, arg, out>>

\* The run without its final cleanup: the body goes on as refine_text left it.
FinalCleanupSkipped ==
    /\ pc = "refined"
    /\ pc' = "normalized"
    /\ UNCHANGED <<site, summarization, custom_audio, tts, article, body, chunks, idx,
                   summaries, requests, provenance, full_script, tts_text, stages, error,
                   arg, out>>

\* Step 3, third call.
FinalCleanup ==
    /\ pc = "refined"
    /\ body' = final_cleanup(body)
    /\ stages' = Append(stages, Stage("Normalize", body'))
    /\ pc' = "normalized"
    /\ UNCHANGED <<site, summarization, custom_audio, tts, article, chunks, idx, summaries,
                   requests, provenance, full_script, tts_text, error, arg, out>>

\* Step 4.
Assemble ==
    /\ pc = "normalized"
    /\ full_script' = assemble(article.title, body)
    /\ stages' = Append(stages, Stage("Assemble", full_script'))
    /\ pc' = "assembled"
    /\ UNCHANGED <<site, summarization, custom_audio, tts, article, body, chunks, idx,
                   summaries, requests, provenance, tts_text, error, arg, out>>

\* Step 5.  A custom audio file is copied; otherwise MediaGenerator.generate_audio
\* gets the script: it raises without an engine or when the engine fails, and
\* a failed mp3 conversion leaves the wav under the mp3's name.
ProcessAudio ==
    /\ pc = "assembled"
    /\ \/ /\ custom_audio
          /\ pc' = "audio"
          /\ UNCHANGED <<tts_text, stages, error>>
       \/ /\ ~custom_audio /\ ~tts
          /\ tts_text' = full_script
          /\ stages' = Append(stages, Stage("Synthesize", <<>>))
          /\ pc' = "error" /\ error' = "synthesis"
       \/ /\ ~custom_audio /\ tts
          /\ tts_text' = full_script
          /\ stages' = Append(stages, Stage("Synthesize", infer_text(full_script)))
          /\ \E result \in {"engine_raises", "mp3", "wav_renamed"} :
                IF result = "engine_raises"
                THEN pc' = "error" /\ error' = "synthesis"
                ELSE pc' = "audio" /\ UNCHANGED error
    /\ UNCHANGED <<site, summarization, custom_audio, tts, article, body, chunks, idx,
                   summaries, requests, provenance, full_script, arg, out>>

\* get_audio_duration: soundfile reads the file, or ffprobe's output parses,
\* or float() raises.
GetAudioDuration ==
    /\ pc = "audio"
    /\ \E result \in {"soundfile", "ffprobe", "unreadable"} :
          IF result = "unreadable"
          THEN pc' = "error" /\ error' = "duration"
          ELSE pc' = "success" /\ UNCHANGED error
    /\ UNCHANGED <<site, summarization, custom_audio, tts, article, body, chunks, idx,
                   summaries, requests, provenance, full_script, tts_text, stages, arg, out>>

Next ==
    \/ CrawlArticle
    \/ PassThrough
    \/ SummarizeDirect
    \/ SummarizeSplit
    \/ SummarizeChunk
    \/ SummarizeFallback
    \/ CombineSummaries
    \/ CorrectText
    \/ RefineText
    \/ FinalCleanup
    \/ Assemble
    \/ ProcessAudio
    \/ GetAudioDuration

Spec == Init /\ [][Next]_vars

-----------------------------------------------------------------------------
(* SpecRefine: refine_text applied to bounded texts under every backend outcome *)

\* Longest text given to refine_text.
MaxRefineLen == 10

RefineInputs ==
    {<<>>} \cup {Fill(n) : n \in 1..MaxRefineLen}
           \cup {Cat(Fill(n), DOT) : n \in 1..MaxRefineLen}

\* Response texts of up to twice that length: bare, surrounded by whitespace,
\* and in quotes.
RefineResponses ==
    LET bare == {Fill(m) : m \in 1..(2 * MaxRefineLen)}
    IN  {<<>>, SP} \cup bare
            \cup {Cat(Cat(SP, r), W(<<"\n">>)) : r \in bare}
            \cup {Cat(Cat(W(<<"\"">>), r), W(<<"\"">>)) : r \in bare}

RefineCallOutcomes ==
    {RAISED} \cup {Answer(status, r) : status \in {200, 500}, r \in RefineResponses}

InitRefine ==
    /\ pc = "refine"
    /\ arg \in RefineInputs
    /\ out = <<>>
    /\ PipelineIdle

\* One call of refine_text(arg); the request and its outcome are logged.
RefineTextCall ==
    /\ pc = "refine"
    /\ \E o \in RefineCallOutcomes :
          /\ requests' = <<Request("refine", 0, arg, o)>>
          /\ out' = refine_text(arg, o)
    /\ pc' = "refine_done"
    /\ UNCHANGED <<site, summarization, custom_audio, tts, article, body, chunks, idx,
                   summaries, provenance, full_script, tts_text, stages, error, arg>>

NextRefine == RefineTextCall

SpecRefine == InitRefine /\ [][NextRefine]_vars

-----------------------------------------------------------------------------
(* The claims about the pipeline *)

HasStage(name) == \E i \in DOMAIN stages : stages[i].name = name

\* The requests summarize has issued.
SummaryRequests == SelectSeq(requests, LAMBDA r : r.kind # "refine")
ChunkRequests == SelectSeq(requests, LAMBDA r : r.kind = "chunk")
CombineRequests == SelectSeq(requests, LAMBDA r : r.kind = "combine")

\* C1: for an article whose description+content is not empty, whatever the
\* backend does, each of the text stages (summarize, correct_text, refine_text,
\* final normalization) returns a text that is not empty.
C1_TextStagesReturnNonEmpty ==
    Strip(desc_and_content(article)) # <<>> =>
        \A i \in DOMAIN stages :
            stages[i].name \in {"Summarize", "SpellCorrect", "Refine", "Normalize"}
                => stages[i].text # <<>>

\* C2: when every generation request of summarize failed (an exception, a
\* timeout, a status other than 200), summarize returns the extractive
\* fallback, and it is not empty (for an article whose description+content is
\* not empty), on the direct path and on the chunked path alike.
C2_FallbackWhenBackendFails ==
    /\ HasStage("Summarize")
    /\ Strip(desc_and_content(article)) # <<>>
    /\ \A i \in DOMAIN SummaryRequests : Failed(SummaryRequests[i].outcome)
    => /\ provenance = "fallback-extractive"
       /\ \A i \in DOMAIN stages : stages[i].name = "Summarize" => stages[i].text # <<>>

\* C3: refine_text returns its input unchanged unless the backend answered 200
\* with a text that, stripped, is not empty and whose length lies between half
\* and one and a half times the input's; an exception, another status, an
\* empty answer and an answer of ratio 0.3 all give back the input.
C3_RefineKeepsTextUnlessGatePasses ==
    pc = "refine_done" =>
        LET o       == requests[1].outcome
            refined == Strip(o.response)
            passes  == /\ ~o.raised /\ o.status = 200
                       /\ refined # <<>>
                       /\ 2 * TLen(refined) > TLen(arg)
                       /\ 2 * TLen(refined) < 3 * TLen(arg)
        IN  ~passes => out = arg

\* C3's case: a 200 answer of length ratio 0.3 was turned down.
C3_Witness ==
    /\ pc = "refine_done"
    /\ ~requests[1].outcome.raised /\ requests[1].outcome.status = 200
    /\ TLen(arg) > 0
    /\ 10 * TLen(Strip(requests[1].outcome.response)) = 3 * TLen(arg)
    /\ out = arg

\* C4: a run ends in the error state only for an unsupported site or a missing
\* or unusable synthesis engine.
C4_OnlyFatalErrorsEndRun ==
    pc = "error" => error \in {"unsupported_site", "synthesis"}

STAGE_ORDER ==
    <<"Crawl", "Summarize", "SpellCorrect", "Refine", "Normalize", "Assemble", "Synthesize">>

\* C5: the stages of a run are a prefix of Crawl, Summarize (PassThrough of the
\* raw description+content, with no summarization request, when summarization
\* is off), SpellCorrect, Refine, Normalize, Assemble, Synthesize; the
\* normalized body is the cleanup of the refined one, the script is assembled
\* from it, and that script is what synthesis is handed.
C5_StagesInFixedOrder ==
    /\ Len(stages) <= Len(STAGE_ORDER)
    /\ \A i \in DOMAIN stages :
          stages[i].name = IF i = 2 /\ ~summarization THEN "PassThrough" ELSE STAGE_ORDER[i]
    /\ ~summarization =>
          /\ SummaryRequests = <<>>
          /\ Len(stages) >= 2 => stages[2].text = Strip(desc_and_content(article))
    /\ Len(stages) >= 5 => stages[5].text = final_cleanup(stages[4].text)
    /\ Len(stages) >= 6 =>
          stages[6].text = INTRO_HEAD \o TakeChars(article.title, TITLE_CHARS) \o ELLIPSIS
                               \o ELLIPSIS \o SP \o stages[5].text \o SP \o ELLIPSIS \o SP
                               \o OUTRO
    /\ Len(stages) >= 7 => tts_text = stages[6].text
    /\ Len(stages) < 7 => tts_text = <<>>

\* C5's case: a run with summarization went through all seven stages.
C5_Witness ==
    /\ pc = "success"
    /\ summarization
    /\ Len(stages) = 7
    /\ stages[5].text # stages[4].text

\* C9: with fewer than 1500 characters of description+content summarize issues
\* one direct request and nothing else; otherwise one request per chunk, at
\* most one combine request and no direct request.  The summary is the direct
\* answer, the combination of the chunk summaries, or the extractive fallback.
C9_PathByLengthAlone ==
    HasStage("Crawl") /\ summarization =>
        LET n  == TLen(Strip(desc_and_content(article)))
            rs == SummaryRequests
        IN  /\ n < CHUNK_SIZE =>
                  /\ \A i \in DOMAIN rs : rs[i].kind = "direct"
                  /\ HasStage("Summarize") => Len(rs) = 1
            /\ n >= CHUNK_SIZE =>
                  /\ \A i \in DOMAIN rs : rs[i].kind \in {"chunk", "combine"}
                  /\ Len(CombineRequests) <= 1
                  /\ HasStage("Summarize") =>
                        Len(ChunkRequests) = Len(split_into_chunks(Strip(desc_and_content(article))))
            /\ HasStage("Summarize") =>
                  /\ provenance \in {"direct", "chunked-combined", "fallback-extractive"}
                  /\ provenance = "direct" => ~Failed(rs[1].outcome)
                  /\ provenance = "chunked-combined" <=> Len(CombineRequests) = 1
            /\ ~HasStage("Summarize") => provenance = "none"

\* C9's case: an article of exactly 1500 characters was summarized by chunks.
C9_Witness ==
    /\ HasStage("Summarize")
    /\ TLen(Strip(desc_and_content(article))) = CHUNK_SIZE
    /\ provenance = "chunked-combined"

\* The summaries of the chunk requests that were answered with a text, in the
\* order of the requests.
RECURSIVE successful_summaries(_)
successful_summaries(rs) ==
    IF rs = <<>> THEN <<>>
    ELSE LET o == Head(rs).outcome
             s == IF o.raised \/ o.status # 200 THEN <<>> ELSE Strip(remove_think(o.response))
         IN  (IF s # <<>> THEN <<s>> ELSE <<>>) \o successful_summaries(Tail(rs))

\* C10: the chunks are requested one at a time in chunk order; a chunk whose
\* request fails or comes back empty is dropped and the later chunks are still
\* requested; the combine request is made after all of them and carries the
\* summaries of the successful chunks, in chunk order.
C10_ChunksInOrderFailuresDropped ==
    LET cr == ChunkRequests
    IN  /\ \A i \in DOMAIN cr :
              i <= Len(chunks) /\ cr[i].n = i /\ cr[i].prompt = chunks[i]
        /\ pc = "chunks" => Len(cr) = idx - 1 /\ summaries = successful_summaries(cr)
        /\ HasStage("Summarize") /\ chunks # <<>> => Len(cr) = Len(chunks)
        /\ \A k \in DOMAIN requests :
              requests[k].kind = "combine" =>
                  /\ k = Len(chunks) + 1
                  /\ successful_summaries(cr) # <<>>
                  /\ requests[k].prompt = Join(successful_summaries(cr), SP)

\* C10's case: of three chunks the first failed, the other two were summarized
\* and combined.
C10_Witness ==
    /\ Len(ChunkRequests) = 3
    /\ Failed(ChunkRequests[1].outcome)
    /\ Len(successful_summaries(ChunkRequests)) = 2
    /\ Len(CombineRequests) = 1

-----------------------------------------------------------------------------
(* SpecCombine: the end of summarize's chunked path (core.py lines 151-154)
   applied to bounded lists of chunk summaries *)

\* Most chunk summaries the chunk loop leaves.
MaxSummaries == 3

\* Chunk summaries as the loop keeps them (stripped, non-empty): one that the
\* normalizer leaves alone and two that it rewrites.
CombinePieces ==
    { ChunkSummary(1),
      W(<<"t", "i", "n", ",", "c">>),
      W(<<"1", ".", "2", "3", "4", " ", "t", "i", "n", ".">>) }

\* n one-letter words separated by single spaces.
WordsText(n) == [i \in 1..(2 * n - 1) |-> IF i % 2 = 1 THEN <<"a", 1>> ELSE <<" ", 1>>]

\* What the combine request comes to: answers around the 80-word gate, with
\* and without a final period and surrounded by whitespace.
CombineCallOutcomes ==
    {RAISED, Answer(500, WordsText(MIN_COMBINE_WORDS) \o DOT)}
        \cup {Answer(200, r) : r \in {<<>>, SP}}
        \cup {Answer(200, WordsText(n)) : n \in {MIN_COMBINE_WORDS - 1, MIN_COMBINE_WORDS}}
        \cup {Answer(200, WordsText(n) \o DOT) :
                  n \in {MIN_COMBINE_WORDS - 1, MIN_COMBINE_WORDS, MIN_COMBINE_WORDS + 1}}
        \cup {Answer(200, SP \o WordsText(MIN_COMBINE_WORDS) \o W(<<".", "\n">>))}

InitCombine ==
    /\ pc = "chunks"
    /\ site = "none" /\ summarization = TRUE /\ custom_audio = FALSE /\ tts = FALSE
    /\ article = Article(TIN, <<>>, Join([i \in DOMAIN MARKS |-> W(<<MARKS[i], ".">>)], SP))
    /\ body = <<>> /\ chunks = <<>> /\ idx = 1
    /\ summaries \in UNION {[1..n -> CombinePieces] : n \in 0..MaxSummaries}
    /\ requests = <<>> /\ provenance = "none"
    /\ full_script = <<>> /\ tts_text = <<>> /\ stages = <<>> /\ error = "none"
    /\ arg = <<>> /\ out = <<>>

\* `return self._combine_summaries(article['title'], summaries, target_words)`
CombineCall ==
    /\ pc = "chunks" /\ idx > Len(chunks)
    /\ summaries # <<>>
    /\ \E o \in CombineCallOutcomes :
          /\ requests' = Append(requests, Request("combine", 0, combined_summaries(summaries), o))
          /\ body' = combine_summaries(summaries, o)
    /\ provenance' = "chunked-combined"
    /\ stages' = Append(stages, Stage("Summarize", body'))
    /\ pc' = "body"
    /\ UNCHANGED <<site, summarization, custom_audio, tts, article, chunks, idx, summaries,
                   full_script, tts_text, error, arg, out>>

\* `if not summaries: return self._fallback_summarize(article)`, else the
\* combine call.
NextCombine == SummarizeFallback \/ CombineCall

SpecCombine == InitCombine /\ [][NextCombine]_vars

\* The text of the combine answer as the code reads it.
combine_final(o) == IF Failed(o) THEN <<>> ELSE Strip(o.response)

\* C11 as stated: with at least one chunk summary, summarize returns the raw
\* concatenation of the chunk summaries (joined in order with single spaces)
\* when the combine call fails or answers with fewer than 80 words, and the
\* combine answer itself when that has 80 words or more.
C11_RawConcatenationOrCombineAnswer ==
    pc = "body" /\ summaries # <<>> =>
        LET o == requests[1].outcome
        IN  /\ provenance = "chunked-combined"
            /\ body = IF Len(Words(combine_final(o))) < MIN_COMBINE_WORDS
                      THEN Join(summaries, SP)
                      ELSE combine_final(o)

\* C11 amended: with at least one chunk summary, summarize returns the
\* normalized (_clean_text) concatenation of the chunk summaries, joined in
\* order with single spaces, when the combine call fails or answers with fewer
\* than 80 words, and the normalized combine answer when that has 80 words or
\* more; it never returns the fallback extract.
C11_CleanedConcatenationOrCombineAnswer ==
    pc = "body" =>
        IF summaries = <<>>
        THEN provenance = "fallback-extractive" /\ requests = <<>>
        ELSE LET o == requests[1].outcome
             IN  /\ provenance = "chunked-combined"
                 /\ Len(requests) = 1
                 /\ body = IF Len(Words(combine_final(o))) < MIN_COMBINE_WORDS
                           THEN clean_text(Join(summaries, SP))
                           ELSE clean_text(combine_final(o))

\* C11's case: the combine call answered 200 with 79 words, and the result is
\* the normalized concatenation of two summaries, which differs from the raw
\* concatenation.
C11_Witness ==
    /\ pc = "body" /\ Len(summaries) = 2
    /\ ~Failed(requests[1].outcome)
    /\ Len(Words(combine_final(requests[1].outcome))) = MIN_COMBINE_WORDS - 1
    /\ body = clean_text(Join(summaries, SP))
    /\ body # Join(summaries, SP)

-----------------------------------------------------------------------------
(* SpecPass: single passes of the normalizer, and the two normalizers side
   by side, applied to bounded texts *)

\* Most pieces of a number text.
MaxDigitPieces == 5

\* Longest run of letters before the last terminator of a completion text;
\* the run after it is at most half as long.
MaxRun == 64

\* Number texts: up to k pieces out of digits, a three-digit group, a dot, a
\* space and a letter.
RECURSIVE DigitTexts(_)
DigitTexts(k) ==
    IF k = 0 THEN {<<>>}
    ELSE DigitTexts(k - 1)
             \cup {t \o p : t \in DigitTexts(k - 1),
                            p \in {W(<<"1">>), W(<<"2", "3", "4">>), W(<<"5">>), DOT, SP,
                                   W(<<"a">>)}}

\* arg is a number text, a run of letters with a terminator and then a shorter
\* run of letters or nothing, a run of letters alone, or one of the normalizer
\* texts of SpecNorm.
InitPass ==
    /\ pc = "pass"
    /\ arg \in DigitTexts(MaxDigitPieces)
                \cup {Cat(Cat(Fill(a), W(<<c>>)), Fill(b)) :
                          a \in 1..MaxRun, b \in 1..(MaxRun \div 2), c \in {".", "?"}}
                \cup {Cat(Fill(a), W(<<c>>)) : a \in 1..MaxRun, c \in {".", "?"}}
                \cup {Fill(a) : a \in 1..MaxRun}
                \cup NormInputs
    /\ out = <<>>
    /\ PipelineIdle

\* The de-grouping loop of _clean_text and _final_cleanup on arg.
DegroupPass ==
    /\ pc = "pass"
    /\ out' = degroup(arg)
    /\ pc' = "degrouped"
    /\ UNCHANGED <<arg, pipeline_vars>>

\* The last three lines of _clean_text and _final_cleanup on arg.
CompletePass ==
    /\ pc = "pass"
    /\ out' = complete_sentence(arg)
    /\ pc' = "completed"
    /\ UNCHANGED <<arg, pipeline_vars>>

\* out holds _clean_text(arg) and _final_cleanup(arg).
CleanupPass ==
    /\ pc = "pass"
    /\ out' = <<clean_text(arg), final_cleanup(arg)>>
    /\ pc' = "cleaned"
    /\ UNCHANGED <<arg, pipeline_vars>>

NextPass == DegroupPass \/ CompletePass \/ CleanupPass

SpecPass == InitPass /\ [][NextPass]_vars

\* The dot t[i] stands between a digit and exactly three digits.
ExactGroupDot(t, i) ==
    /\ t[i][1] = "."
    /\ IsDigitAt(t, i - 1)
    /\ IsDigitAt(t, i + 1) /\ IsDigitAt(t, i + 2) /\ IsDigitAt(t, i + 3)
    /\ ~IsDigitAt(t, i + 4)

\* t without the dots that stand between a digit and exactly three digits.
exact_groups_joined(t) ==
    LET kept == SelectSeq([i \in DOMAIN t |-> <<i, t[i]>>],
                          LAMBDA p : ~ExactGroupDot(t, p[1]))
    IN  [k \in DOMAIN kept |-> kept[k][2]]

\* C12: de-grouping removes exactly the dots that stand between a run of
\* digits and exactly three digits (the dot directly followed by three digits
\* and then a non-digit or the end), every group of a multi-group number
\* included; a dot followed by whitespace, by fewer than three digits or by four
\* or more digits stays, and nothing but dots is removed.
C12_DegroupOnlyExactGroups ==
    pc = "degrouped" => out = exact_groups_joined(arg)

\* C13: a non-empty text that does not end in a terminator is cut right after
\* its last terminator when that terminator lies past 70% of the text's length,
\* and otherwise (last terminator at or before 70%, or none) is kept whole with
\* one period appended; a text that ends in a terminator is unchanged; a
\* non-empty result ends in a terminator.
C13_CompletionByLastTerminator ==
    pc = "completed" =>
        LET ks   == {k \in DOMAIN arg : arg[k][1] \in TERMINATOR}
            k    == IF ks = {} THEN 0 ELSE Max(ks)
            last == TLen(SubSeq(arg, 1, k)) - 1
        IN  /\ arg = <<>> => out = <<>>
            /\ arg # <<>> /\ Last(arg)[1] \in TERMINATOR => out = arg
            /\ arg # <<>> /\ Last(arg)[1] \notin TERMINATOR =>
                   out = IF ks # {} /\ 10 * last > 7 * TLen(arg)
                         THEN SubSeq(arg, 1, k)
                         ELSE arg \o DOT
            /\ out # <<>> => Last(out)[1] \in TERMINATOR

\* C14: for every body text the orchestrator's _final_cleanup and the
\* normalizer _clean_text return the same string.
C14_FinalCleanupIsNormalize ==
    pc = "cleaned" => out[1] = out[2]

====
